---- MODULE Spec2Model ----
(***************************************************************************)
(* NASA APOD Explorer: the express server of index.js and of its variant   *)
(* with JSON endpoints (/api/today, /api/date/:date).  The model covers    *)
(* the shared in-memory cache, the rate-limit snapshot, the date           *)
(* validation of POST /get-date-picture, fetchAPOD with its outbound call  *)
(* in flight, and the error normalisation of the failure path.             *)
(*                                                                         *)
(* Strings whose characters the code inspects (dates, header values) are   *)
(* sequences of one-character strings; messages are sequences of           *)
(* fragments, so that concatenation is \o.                                 *)
(***************************************************************************)
EXTENDS Integers, Sequences, FiniteSets, TLC

\* ---------------------------------------------------------------- bounds
\* Inbound requests accepted in one run.
MaxRequests == 2
\* Steps of the wall clock in one run, of twelve hours each.
MaxTicks == 1

\* ------------------------------------------------------- JS value helpers
\* null / undefined (a missing form field, the default of fetchAPOD's date).
\* Not a one-character sequence, so it is no string a client can send.
Null == <<"null">>
\* An absent response header / an absent body field (undefined).
Absent == <<"undefined">>
\* An Invalid Date (time value NaN).
InvalidDate == [nan |-> TRUE, day |-> 0, ms |-> 0]

\* JS truthiness of a string-or-null value: null, undefined and "" are falsy.
Truthy(s) == s # Null /\ s # Absent /\ s # <<>>

Digits == <<"0", "1", "2", "3", "4", "5", "6", "7", "8", "9">>

IsDigit(c) == \E i \in 1..10 : Digits[i] = c

DigitVal(c) == (CHOOSE i \in 1..10 : Digits[i] = c) - 1

DigitChar(n) == Digits[n + 1]

\* The decimal value of a sequence of digit characters.
RECURSIVE DecVal(_)
DecVal(s) ==
  IF s = <<>> THEN 0
  ELSE 10 * DecVal(SubSeq(s, 1, Len(s) - 1)) + DigitVal(s[Len(s)])

RECURSIVE LeadingDigits(_)
LeadingDigits(s) ==
  IF s = <<>> \/ ~IsDigit(Head(s)) THEN <<>>
  ELSE <<Head(s)>> \o LeadingDigits(Tail(s))

\* parseInt(s): the value of the leading digits of s.  Every header value of
\* the model starts with a digit, so the NaN result is not represented.
parseInt(s) == DecVal(LeadingDigits(s))

\* ------------------------------------------------------------- calendar
\* Days since 1970-01-01 of a civil date (what Date.UTC / the ISO parser
\* computes; a day past the month's end carries into the next month).
DaysFromCivil(y, m, d) ==
  LET yy  == IF m <= 2 THEN y - 1 ELSE y
      era == yy \div 400
      yoe == yy - era * 400
      mp  == IF m > 2 THEN m - 3 ELSE m + 9
      doy == (153 * mp + 2) \div 5 + d - 1
      doe == yoe * 365 + yoe \div 4 - yoe \div 100 + doy
  IN era * 146097 + doe - 719468

\* The civil date <<y, m, d>> of a day number (what toISOString prints).
CivilFromDays(z) ==
  LET zz  == z + 719468
      era == zz \div 146097
      doe == zz - era * 146097
      yoe == (doe - doe \div 1460 + doe \div 36524 - doe \div 146096) \div 365
      doy == doe - (365 * yoe + yoe \div 4 - yoe \div 100)
      mp  == (5 * doy + 2) \div 153
      d   == doy - (153 * mp + 2) \div 5 + 1
      m   == IF mp < 10 THEN mp + 3 ELSE mp - 9
      y   == yoe + era * 400 + (IF m <= 2 THEN 1 ELSE 0)
  IN <<y, m, d>>

Pad2(n) == <<DigitChar(n \div 10), DigitChar(n % 10)>>

Pad4(n) == Pad2(n \div 100) \o Pad2(n % 100)

\* date.toISOString().split('T')[0] of a Date on day number z.
ToISODate(z) ==
  LET c == CivilFromDays(z)
  IN Pad4(c[1]) \o <<"-">> \o Pad2(c[2]) \o <<"-">> \o Pad2(c[3])

\* The pattern without its $ anchor: /^\d{4}-\d{2}-\d{2}/.test(s)
dateRegex_Unanchored(s) ==
  /\ Len(s) >= 10
  /\ \A i \in {1, 2, 3, 4, 6, 7, 9, 10} : IsDigit(s[i])
  /\ s[5] = "-"
  /\ s[8] = "-"

\* /^\d{4}-\d{2}-\d{2}$/.test(s)
dateRegex(s) ==
  /\ Len(s) = 10
  /\ \A i \in {1, 2, 3, 4, 6, 7, 9, 10} : IsDigit(s[i])
  /\ s[5] = "-"
  /\ s[8] = "-"

\* new Date(s) for a string of the form YYYY-MM-DD: UTC midnight of that day,
\* or an Invalid Date when the month is not 01..12 or the day not 01..31.
NewDate(s) ==
  LET y == DecVal(SubSeq(s, 1, 4))
      m == DecVal(SubSeq(s, 6, 7))
      d == DecVal(SubSeq(s, 9, 10))
  IN IF m \in 1..12 /\ d \in 1..31
     THEN [nan |-> FALSE, day |-> DaysFromCivil(y, m, d), ms |-> 0]
     ELSE InvalidDate

\* a < b on two Dates (by time value); every comparison with NaN is false.
DateLT(a, b) ==
  /\ ~a.nan
  /\ ~b.nan
  /\ \/ a.day < b.day
     \/ a.day = b.day /\ a.ms < b.ms

DateGT(a, b) == DateLT(b, a)

\* -------------------------------------------------------- named strings
S_1995_06_16 == <<"1", "9", "9", "5", "-", "0", "6", "-", "1", "6">>

S_1995_06_15 == <<"1", "9", "9", "5", "-", "0", "6", "-", "1", "5">>

S_1990_01_01 == <<"1", "9", "9", "0", "-", "0", "1", "-", "0", "1">>

S_2000_01_01 == <<"2", "0", "0", "0", "-", "0", "1", "-", "0", "1">>

S_2024_13_40 == <<"2", "0", "2", "4", "-", "1", "3", "-", "4", "0">>

\* A date written without zero padding: it does not match the pattern.
S_2024_3_1 == <<"2", "0", "2", "4", "-", "3", "-", "1">>

\* A date followed by one more character: it does not match the pattern.
S_trailing == <<"2", "0", "0", "0", "-", "0", "1", "-", "0", "1", "x">>

\* The wall clock starts at 2024-03-01T12:00:00.000Z.
BaseDay == DaysFromCivil(2024, 3, 1)

\* new Date() after t ticks of the wall clock: noon (43200000 ms into the
\* day), the next midnight, noon, ...
ClockAt(t) ==
  [nan |-> FALSE, day |-> BaseDay + (t + 1) \div 2,
   ms |-> ((t + 1) % 2) * 43200000]

LastDay == BaseDay + (MaxTicks + 1) \div 2

\* The days of the run and the day after its last.
WindowDates == {ToISODate(z) : z \in BaseDay..(LastDay + 1)}

\* What a client may send as the form field `date` (Null: no such field).
PostInputs ==
  {Null, <<>>, S_2024_3_1, S_trailing, S_2024_13_40, S_1990_01_01,
   S_1995_06_15, S_1995_06_16, S_2000_01_01} \cup WindowDates

\* What a client may send as the path parameter of /api/date/:date (a path
\* segment is never empty).
ApiDateParams == {S_2024_3_1, S_1990_01_01, ToISODate(BaseDay)}

\* ------------------------------------------------- the random generator
\* Math.random() is modelled by a numerator x over RandomDen: x < RandomDen
\* is the fraction x / RandomDen, x = RandomDen is the largest double below 1
\* (1 - 2^-53).
RandomDen == 8

MathRandom == 0..RandomDen

\* new Date('1995-06-16')
firstAPOD == NewDate(S_1995_06_16)

\* today.getTime() - firstAPOD.getTime(), as days and milliseconds
timeDiff(today) == [days |-> today.day - firstAPOD.day, ms |-> today.ms]

\* Math.floor(Math.random() * timeDiff), as days and milliseconds. For the
\* largest double below 1 the product rounds to a double below timeDiff
\* (timeDiff is an integer under 2^53), so its floor is timeDiff - 1.
FloorOfProduct(x, d) ==
  IF x = RandomDen
  THEN IF d.ms > 0 THEN [days |-> d.days, ms |-> d.ms - 1]
       ELSE IF d.days > 0 THEN [days |-> d.days - 1, ms |-> 86399999]
       ELSE [days |-> 0, ms |-> 0]
  ELSE LET wholeDays == (x * d.days) \div RandomDen
           restDays  == (x * d.days) % RandomDen
           restMs    == (restDays * 86400000 + x * d.ms) \div RandomDen
       IN [days |-> wholeDays + restMs \div 86400000,
           ms   |-> restMs % 86400000]

\* randomTime without the firstAPOD.getTime() term: milliseconds counted
\* from the epoch.
randomDate_FromEpoch(x, today) ==
  LET off == FloorOfProduct(x, timeDiff(today))
  IN [nan |-> FALSE, day |-> off.days, ms |-> off.ms]

\* new Date(firstAPOD.getTime() + Math.floor(Math.random() * timeDiff))
randomDate(x, today) ==
  LET off == FloorOfProduct(x, timeDiff(today))
  IN [nan |-> FALSE, day |-> firstAPOD.day + off.days, ms |-> off.ms]

\* randomDate.toISOString().split('T')[0]
dateString(x, today) == ToISODate(randomDate(x, today).day)

\* The values of Math.random() the requests of the model draw: the two ends,
\* 0 and the largest double below 1.
RandomDraws == {0, RandomDen}

\* ------------------------------------------------------------- messages
FormatErrorMsg == <<"Invalid date format. Please use YYYY-MM-DD.">>

RangeErrorMsg == <<"Date must be between June 16, 1995 and today.">>

RateLimitMsg ==
  <<"API RATE LIMIT EXCEEDED! Get your FREE personal API key at https://api.nasa.gov/">>

ServerErrorMsg ==
  <<"NASA Servers are experiencing issues. Please try again later.">>

TimeoutMsg == <<"Connection timed out. NASA servers are slow to respond.">>

TodayFailedMsg == <<"Failed to fetch today's picture.">>

\* `Failed to fetch picture from ${date}.`
DateFailedMsg(date) == <<"Failed to fetch picture from ">> \o date \o <<".">>

RandomFailedMsg == <<"Failed to fetch random picture.">>

\* The msg field of the provider's JSON error body.
UpstreamMsg == <<"Date must be between Jun 16, 1995 and today (provider).">>

\* ----------------------------------------------------- the provider side
\* An APOD record as the provider returns it (response.data).
APOD(d) == [date |-> d, media_type |-> "image"]

\* data: null of a rendered page.
NoData == [date |-> Null, media_type |-> "none"]

RECURSIVE SplitDash(_)
\* s split at its hyphens.
SplitDash(s) ==
  IF \A i \in 1..Len(s) : s[i] # "-" THEN <<s>>
  ELSE LET i == CHOOSE j \in 1..Len(s) :
                  s[j] = "-" /\ \A k \in 1..(j - 1) : s[k] # "-"
       IN <<SubSeq(s, 1, i - 1)>> \o SplitDash(SubSeq(s, i + 1, Len(s)))

AllDigits(s) == s # <<>> /\ \A i \in 1..Len(s) : IsDigit(s[i])

\* The date field the provider reports for a date parameter: year, month and
\* day re-printed with zero padding when the parameter reads as Y-M-D, the
\* parameter itself otherwise.
ProviderDate(p) ==
  LET f == SplitDash(p)
  IN IF /\ Len(f) = 3
        /\ \A i \in 1..3 : AllDigits(f[i])
        /\ Len(f[1]) <= 4 /\ Len(f[2]) <= 2 /\ Len(f[3]) <= 2
     THEN Pad4(DecVal(f[1])) \o <<"-">> \o Pad2(DecVal(f[2]))
            \o <<"-">> \o Pad2(DecVal(f[3]))
     ELSE p

\* Values of a rate-limit response header (Absent: the header is not sent).
H_1000 == <<"1", "0", "0", "0">>

H_500 == <<"5", "0", "0">>

H_950 == <<"9", "5", "0">>

H_0 == <<"0">>

\* parseInt(headers[...]) of each header value, computed once.
ParsedHeader == [h \in {H_1000, H_500, H_950, H_0} |-> parseInt(h)]

\* The x-ratelimit-limit and x-ratelimit-remaining headers of a response.
HeaderSets ==
  {[limit |-> Absent, remaining |-> Absent],
   [limit |-> H_1000, remaining |-> H_950],
   [limit |-> H_500, remaining |-> Absent],
   [limit |-> Absent, remaining |-> H_0]}

\* The 2xx responses the provider may give to the call of request q at clock
\* value t: for a date parameter the record of that date; without one the
\* provider's current record, whose day is the server's UTC day or, the
\* provider's clock running behind UTC, the day before.
Successes(q, t) ==
  LET dates == IF Truthy(q.date) THEN {ProviderDate(q.date)}
               ELSE {ToISODate(t.day - 1), ToISODate(t.day)}
  IN {[ok |-> TRUE, data |-> APOD(d), headers |-> h] :
        d \in dates, h \in HeaderSets}

\* The errors axios.get may reject with: a response with a non-2xx status and
\* a JSON body with or without a msg field, a timeout (no response, code
\* ECONNABORTED), a network failure (no response). headers are those of
\* error.response.
NoHeaders == [limit |-> Absent, remaining |-> Absent]

HttpError(s, m) ==
  [hasResponse |-> TRUE, status |-> s, code |-> "ERR_BAD_RESPONSE",
   message |-> <<"Request failed with status code">>, msg |-> m,
   headers |-> NoHeaders]

\* The provider's 429 once the quota is used up: it carries the rate-limit
\* headers, with none remaining.
QuotaExceeded ==
  [HttpError(429, Absent) EXCEPT
     !.headers = [limit |-> H_1000, remaining |-> H_0]]

HttpErrors ==
  {HttpError(400, Absent), HttpError(400, UpstreamMsg),
   HttpError(429, Absent), HttpError(429, UpstreamMsg),
   HttpError(500, UpstreamMsg), HttpError(503, Absent), QuotaExceeded}

TimeoutError ==
  [hasResponse |-> FALSE, status |-> 0, code |-> "ECONNABORTED",
   message |-> <<"timeout exceeded">>, msg |-> Absent, headers |-> NoHeaders]

NetworkError ==
  [hasResponse |-> FALSE, status |-> 0, code |-> "ENOTFOUND",
   message |-> <<"getaddrinfo ENOTFOUND api.nasa.gov">>, msg |-> Absent,
   headers |-> NoHeaders]

Failures == HttpErrors \cup {TimeoutError, NetworkError}

\* ---------------------------------------------------------------- state
VARIABLES
  variant,     \* which server file runs: "index" (index.js) or "api"
  ticks,       \* the wall clock, in ticks since the start
  apodCache,   \* apodCache: date key -> record
  RATE_LIMIT,  \* the rate-limit snapshot
  inflight,    \* fetchAPOD invocations awaiting axios.get
  nreq,        \* inbound requests accepted so far
  outbound,    \* axios.get calls issued so far
  res,         \* the HTTP response sent by the last step (NoResponse: none)
  aliased,     \* the last entry stored under a "today" key by line 82
  API_KEY,     \* process.env.NASA_API_KEY (Absent: not set)
  proc         \* the process: "starting", "listening" or "exited"

vars ==
  <<variant, ticks, apodCache, RATE_LIMIT, inflight, nreq, outbound, res,
    aliased, API_KEY, proc>>

now == ClockAt(ticks)

\* new Date().toISOString().split('T')[0]
TodayKey == ToISODate(now.day)

NoResponse ==
  [route |-> "none", key |-> Null, via |-> "none", status |-> 0,
   view |-> "none", loading |-> FALSE, data |-> NoData, error |-> Null]

NoAlias == [key |-> Null, rec |-> NoData]

\* res.render / res.json of a fetched or cached record (status 200).
Rendered(route, key, via, data) ==
  [route |-> route, key |-> key, via |-> via, status |-> 200,
   view |-> IF variant = "api" THEN "json" ELSE "index.ejs",
   loading |-> FALSE, data |-> data, error |-> Null]

\* res.render("index.ejs", {data: null, error}) of a validation error.
Rejected(route, key, error) ==
  [route |-> route, key |-> key, via |-> "none", status |-> 200,
   view |-> "index.ejs", loading |-> FALSE, data |-> NoData, error |-> error]

\* res.render("index.ejs", {data: null, error: null, isLoading: true, ...})
Shell(route, key) ==
  [route |-> route, key |-> key, via |-> "none", status |-> 200,
   view |-> "index.ejs", loading |-> TRUE, data |-> NoData, error |-> Null]

\* res.status(500) with the error message, rendered or as JSON.
Failed(route, key, error) ==
  [route |-> route, key |-> key, via |-> "upstream", status |-> 500,
   view |-> IF variant = "api" THEN "json" ELSE "index.ejs",
   loading |-> FALSE, data |-> NoData, error |-> error]

\* What the environment may hold for NASA_API_KEY: nothing, the empty string
\* (NASA_API_KEY= in .env), a key.
EnvKeys == {Absent, <<>>, <<"DEMO_KEY">>}

Init ==
  /\ variant \in {"index", "api"}
  /\ ticks = 0
  /\ apodCache = <<>>
  /\ RATE_LIMIT = [limit |-> 1000, remaining |-> 1000]
  /\ inflight = {}
  /\ nreq = 0
  /\ outbound = 0
  /\ res = NoResponse
  /\ aliased = NoAlias
  /\ API_KEY \in EnvKeys
  /\ proc = "starting"

\* Module evaluation up to app.listen: if (!API_KEY) process.exit(1).
Startup_NoCheck ==
  /\ proc = "starting"
  /\ proc' = "listening"
  /\ UNCHANGED <<variant, ticks, apodCache, RATE_LIMIT, inflight, nreq,
                 outbound, res, aliased, API_KEY>>

\* Module evaluation: without a key the process exits with code 1 before
\* app.listen, otherwise it listens.
Startup ==
  /\ proc = "starting"
  /\ proc' = IF ~Truthy(API_KEY) THEN "exited" ELSE "listening"
  /\ UNCHANGED <<variant, ticks, apodCache, RATE_LIMIT, inflight, nreq,
                 outbound, res, aliased, API_KEY>>

\* ------------------------------------------------------- the fetch helper
\* Map.prototype.set
MapSet(m, k, v) == [x \in DOMAIN m \cup {k} |-> IF x = k THEN v ELSE m[x]]

\* const dateKey = date || new Date().toISOString().split('T')[0]
EffectiveKey(date) == IF Truthy(date) THEN date ELSE TodayKey

\* updateRateLimitFromHeaders testing the parsed number instead of the header
\* string: if (parseInt(headers[...])) ..., so that a value of 0 is skipped.
updateRateLimitFromHeaders_ParsedTruthy(rl, headers) ==
  [limit     |-> IF Truthy(headers.limit) /\ ParsedHeader[headers.limit] # 0
                 THEN ParsedHeader[headers.limit] ELSE rl.limit,
   remaining |-> IF /\ Truthy(headers.remaining)
                    /\ ParsedHeader[headers.remaining] # 0
                 THEN ParsedHeader[headers.remaining] ELSE rl.remaining]

\* updateRateLimitFromHeaders: a header that is present and not "" replaces
\* its field by parseInt of its value.
updateRateLimitFromHeaders(rl, headers) ==
  [limit     |-> IF Truthy(headers.limit)
                 THEN ParsedHeader[headers.limit] ELSE rl.limit,
   remaining |-> IF Truthy(headers.remaining)
                 THEN ParsedHeader[headers.remaining] ELSE rl.remaining]

\* CacheStore without the second set: the record goes under the provider's
\* date only.
CacheStore_NoAlias(cache, date, dateKey, data) ==
  MapSet(cache, data.date, data)

\* CacheStore with the second set done for every fetch, a given date
\* included.
CacheStore_AlwaysBoth(cache, date, dateKey, data) ==
  MapSet(MapSet(cache, data.date, data), dateKey, data)

\* The two apodCache.set of a successful fetch: under the provider's date,
\* and under dateKey when no date was given and the two differ.
CacheStore(cache, date, dateKey, data) ==
  LET c1 == MapSet(cache, data.date, data)
  IN IF ~Truthy(date) /\ data.date # dateKey
     THEN MapSet(c1, dateKey, data)
     ELSE c1

\* fetchAPOD without its cache lookup: every invocation issues axios.get.
fetchAPOD_NoLookup(route, date) ==
  /\ inflight' = inflight \cup
        {[id |-> nreq + 1, route |-> route, date |-> date,
          dateKey |-> EffectiveKey(date)]}
  /\ outbound' = outbound + 1
  /\ res' = NoResponse
  /\ UNCHANGED <<apodCache, RATE_LIMIT>>

\* fetchAPOD joining a call already in flight for the same key instead of
\* issuing its own (single-flight).
fetchAPOD_SingleFlight(route, date) ==
  LET dateKey == EffectiveKey(date)
  IN IF dateKey \in DOMAIN apodCache
     THEN /\ res' = Rendered(route, dateKey, "cache", apodCache[dateKey])
          /\ UNCHANGED <<apodCache, RATE_LIMIT, inflight, outbound>>
     ELSE /\ inflight' = inflight \cup
                 {[id |-> nreq + 1, route |-> route, date |-> date,
                   dateKey |-> dateKey]}
          /\ outbound' = IF \E p \in inflight : p.dateKey = dateKey
                         THEN outbound ELSE outbound + 1
          /\ res' = NoResponse
          /\ UNCHANGED <<apodCache, RATE_LIMIT>>

\* fetchAPOD(date) up to its await: a hit returns the cached record to the
\* route, which renders it in the same turn; a miss issues axios.get and
\* leaves the invocation in flight.
fetchAPOD(route, date) ==
  LET dateKey == EffectiveKey(date)
  IN IF dateKey \in DOMAIN apodCache
     THEN /\ res' = Rendered(route, dateKey, "cache", apodCache[dateKey])
          /\ UNCHANGED <<apodCache, RATE_LIMIT, inflight, outbound>>
     ELSE /\ inflight' = inflight \cup
                 {[id |-> nreq + 1, route |-> route, date |-> date,
                   dateKey |-> dateKey]}
          /\ outbound' = outbound + 1
          /\ res' = NoResponse
          /\ UNCHANGED <<apodCache, RATE_LIMIT>>

\* ------------------------------------------------------ error normalising
\* The classification of handleError / getErrorMessage (their if-chain).
getErrorMessage(error, customMessage) ==
  IF error.hasResponse /\ error.status = 429 THEN RateLimitMsg
  ELSE IF error.hasResponse /\ error.status >= 500 THEN ServerErrorMsg
  ELSE IF error.code = "ECONNABORTED" THEN TimeoutMsg
  ELSE customMessage \o <<" ">> \o error.message

\* What handleError of index.js renders:
\* error.response?.data?.msg || errorMessage
handleError(error, customMessage) ==
  IF error.hasResponse /\ Truthy(error.msg)
  THEN error.msg
  ELSE getErrorMessage(error, customMessage)

\* The message a failed fetch shows: handleError in index.js, getErrorMessage
\* alone in the variant with JSON endpoints.
ShownError(error, customMessage) ==
  IF variant = "index"
  THEN handleError(error, customMessage)
  ELSE getErrorMessage(error, customMessage)

\* The customMessage each route passes.
CustomMessage(q) ==
  IF q.route = "GET /random" THEN RandomFailedMsg
  ELSE IF Truthy(q.date) THEN DateFailedMsg(q.date)
  ELSE TodayFailedMsg

\* ----------------------------------------------------------- validation
\* The range check with <= and >= in place of < and >.
ValidateDate_Exclusive(selectedDate, t) ==
  IF ~Truthy(selectedDate) \/ ~dateRegex(selectedDate) THEN "FORMAT_ERROR"
  ELSE LET inputDate == NewDate(selectedDate)
           minDate   == NewDate(S_1995_06_16)
       IN IF ~DateGT(inputDate, minDate) \/ ~DateLT(inputDate, t)
          THEN "RANGE_ERROR"
          ELSE "OK"

\* The checks of POST /get-date-picture on req.body.date at clock value t.
ValidateDate(selectedDate, t) ==
  IF ~Truthy(selectedDate) \/ ~dateRegex(selectedDate) THEN "FORMAT_ERROR"
  ELSE LET inputDate == NewDate(selectedDate)
           minDate   == NewDate(S_1995_06_16)
       IN IF DateLT(inputDate, minDate) \/ DateGT(inputDate, t)
          THEN "RANGE_ERROR"
          ELSE "OK"

\* --------------------------------------------------------------- routes
Accept ==
  /\ proc = "listening"
  /\ nreq < MaxRequests
  /\ nreq' = nreq + 1
  /\ UNCHANGED <<variant, ticks, aliased, API_KEY, proc>>

\* GET / of index.js: fetchAPOD() with no date.
GetRoot ==
  /\ variant = "index"
  /\ Accept
  /\ fetchAPOD("GET /", Null)

\* GET / of the variant with JSON endpoints: the loading shell, no fetch.
GetRootShell ==
  /\ variant = "api"
  /\ Accept
  /\ res' = Shell("GET /", Null)
  /\ UNCHANGED <<apodCache, RATE_LIMIT, inflight, outbound>>

\* GET /api/today: fetchAPOD() with no date.
GetApiToday ==
  /\ variant = "api"
  /\ Accept
  /\ fetchAPOD("GET /api/today", Null)

\* POST /get-date-picture with form field date = selectedDate: validation,
\* then fetchAPOD(selectedDate) in index.js, the loading shell with
\* initialDate in the variant with JSON endpoints.
PostDatePicture(selectedDate) ==
  /\ Accept
  /\ LET verdict == ValidateDate(selectedDate, now)
     IN IF verdict = "FORMAT_ERROR"
        THEN /\ res' = Rejected("POST /get-date-picture", selectedDate,
                                FormatErrorMsg)
             /\ UNCHANGED <<apodCache, RATE_LIMIT, inflight, outbound>>
        ELSE IF verdict = "RANGE_ERROR"
        THEN /\ res' = Rejected("POST /get-date-picture", selectedDate,
                                RangeErrorMsg)
             /\ UNCHANGED <<apodCache, RATE_LIMIT, inflight, outbound>>
        ELSE IF variant = "index"
        THEN fetchAPOD("POST /get-date-picture", selectedDate)
        ELSE /\ res' = Shell("POST /get-date-picture", selectedDate)
             /\ UNCHANGED <<apodCache, RATE_LIMIT, inflight, outbound>>

\* GET /api/date/:date: fetchAPOD(req.params.date), with no validation.
GetApiDate(param) ==
  /\ variant = "api"
  /\ Accept
  /\ fetchAPOD("GET /api/date/:date", param)

\* GET /random with Math.random() = x: fetchAPOD(dateString) in index.js, the
\* loading shell with initialDate in the variant with JSON endpoints.
GetRandom(x) ==
  /\ Accept
  /\ IF variant = "index"
     THEN fetchAPOD("GET /random", dateString(x, now))
     ELSE /\ res' = Shell("GET /random", dateString(x, now))
          /\ UNCHANGED <<apodCache, RATE_LIMIT, inflight, outbound>>

\* GET /about resetting the snapshot of the rate limit as it answers.
GetAbout_ResetSnapshot ==
  /\ Accept
  /\ res' = [Shell("GET /about", Null) EXCEPT !.view = "about.ejs",
                                               !.loading = FALSE]
  /\ RATE_LIMIT' = [limit |-> 1000, remaining |-> 1000]
  /\ UNCHANGED <<apodCache, inflight, outbound>>

\* GET /about
GetAbout ==
  /\ Accept
  /\ res' = [Shell("GET /about", Null) EXCEPT !.view = "about.ejs",
                                               !.loading = FALSE]
  /\ UNCHANGED <<apodCache, RATE_LIMIT, inflight, outbound>>

\* axios.get of invocation q resolves with response r: the rest of fetchAPOD
\* (snapshot, cache) and the route's render of the record.
FetchResolve(q, r) ==
  /\ q \in inflight
  /\ inflight' = inflight \ {q}
  /\ RATE_LIMIT' = updateRateLimitFromHeaders(RATE_LIMIT, r.headers)
  /\ apodCache' = CacheStore(apodCache, q.date, q.dateKey, r.data)
  /\ aliased' = IF ~Truthy(q.date) /\ r.data.date # q.dateKey
                THEN [key |-> q.dateKey, rec |-> r.data]
                ELSE aliased
  /\ res' = Rendered(q.route, q.dateKey, "upstream", r.data)
  /\ UNCHANGED <<variant, ticks, nreq, outbound, API_KEY, proc>>

\* A rejection that is remembered: the failure is stored under the key and
\* the snapshot is marked as used up.
FetchReject_Cached(q, e) ==
  /\ q \in inflight
  /\ inflight' = inflight \ {q}
  /\ apodCache' = MapSet(apodCache, q.dateKey, NoData)
  /\ RATE_LIMIT' = [RATE_LIMIT EXCEPT !.remaining = 0]
  /\ res' = Failed(q.route, q.dateKey, ShownError(e, CustomMessage(q)))
  /\ UNCHANGED <<variant, ticks, nreq, outbound, aliased, API_KEY, proc>>

\* A rejection nobody catches: the process ends on the unhandled rejection
\* and the request gets no response.
FetchReject_Crash(q, e) ==
  /\ q \in inflight
  /\ inflight' = inflight \ {q}
  /\ proc' = "exited"
  /\ res' = NoResponse
  /\ UNCHANGED <<variant, ticks, apodCache, RATE_LIMIT, nreq, outbound,
                 aliased, API_KEY>>

\* A rejection answered by a second axios.get for the same invocation
\* (one retry) instead of an error response.
FetchReject_Retry(q, e) ==
  /\ q \in inflight
  /\ outbound' = outbound + 1
  /\ res' = NoResponse
  /\ UNCHANGED <<variant, ticks, apodCache, RATE_LIMIT, inflight, nreq,
                 aliased, API_KEY, proc>>

\* axios.get of invocation q rejects with error e: fetchAPOD throws, the
\* route's catch answers 500 with the normalised message.
FetchReject(q, e) ==
  /\ q \in inflight
  /\ inflight' = inflight \ {q}
  /\ res' = Failed(q.route, q.dateKey, ShownError(e, CustomMessage(q)))
  /\ UNCHANGED <<variant, ticks, apodCache, RATE_LIMIT, nreq, outbound,
                 aliased, API_KEY, proc>>

\* The wall clock advances.
Tick ==
  /\ ticks < MaxTicks
  /\ ticks' = ticks + 1
  /\ res' = NoResponse
  /\ UNCHANGED <<variant, apodCache, RATE_LIMIT, inflight, nreq, outbound,
                 aliased, API_KEY, proc>>

Next ==
  \/ Startup
  \/ GetRoot
  \/ GetRootShell
  \/ GetApiToday
  \/ \E d \in PostInputs : PostDatePicture(d)
  \/ \E d \in ApiDateParams : GetApiDate(d)
  \/ \E x \in RandomDraws : GetRandom(x)
  \/ GetAbout
  \/ \E q \in inflight : \E r \in Successes(q, now) : FetchResolve(q, r)
  \/ \E q \in inflight : \E e \in Failures : FetchReject(q, e)
  \/ Tick

Spec == Init /\ [][Next]_vars

\* The outbound call of request i, still pending when its timeout (25000 ms,
\* 30000 ms in the variant with JSON endpoints) expires, rejects with
\* ECONNABORTED.
Timeout(i) ==
  \E q \in inflight : q.id = i /\ FetchReject(q, TimeoutError)

\* No outbound call stays pending for ever: one that neither resolves nor
\* rejects is ended by its timeout.
LiveSpec == Spec /\ \A i \in 1..MaxRequests : WF_vars(Timeout(i))

\* ===================================================================
\* The legacy server (no cache, request counters kept by the server)
\* ===================================================================
\* In this variant RATE_LIMIT holds the two quotas, the two counters and
\* their reset times; apodCache and aliased are not used.
MaxLegacyTicks == 5

\* The requests the process has already served, all in its first instant,
\* when the run starts: none, or one short of the hourly quota.
PriorRequests == {0, 999}

\* The instants of the legacy clock, in half hours since the start: 0, 0.5 h,
\* 1 h, 1.5 h, then 24 h, 24.5 h, ...
HalfHours(t) == IF t <= 3 THEN t ELSE 44 + t

\* new Date() at instant t of the wall clock, which starts at
\* 2024-03-01T12:00:00.000Z.
LegacyClockAt(t) ==
  [nan |-> FALSE, day |-> BaseDay + (HalfHours(t) + 24) \div 48,
   ms |-> ((HalfHours(t) + 24) % 48) * 1800000]

LegacyNow == LegacyClockAt(ticks)

\* new Date(Date.now() + h * 60 * 60 * 1000)
AddHours(d, h) ==
  LET total == d.ms + h * 3600000
  IN [nan |-> FALSE, day |-> d.day + total \div 86400000,
      ms |-> total % 86400000]

\* a >= b on two Dates
DateGE(a, b) == ~a.nan /\ ~b.nan /\ ~DateLT(a, b)

\* updateRateLimit resetting only once the reset time has passed (now >
\* resetTime).
updateRateLimit_AfterOnly(rl, t) ==
  LET h == IF DateGT(t, rl.hourlyResetTime)
           THEN [rl EXCEPT !.hourlyCount = 0,
                           !.hourlyResetTime = AddHours(t, 1)]
           ELSE rl
      d == IF DateGT(t, h.dailyResetTime)
           THEN [h EXCEPT !.dailyCount = 0,
                          !.dailyResetTime = AddHours(t, 24)]
           ELSE h
  IN [d EXCEPT !.hourlyCount = @ + 1, !.dailyCount = @ + 1]

\* updateRateLimit() at clock value t: the two resets, then the two
\* increments.
updateRateLimit(rl, t) ==
  LET h == IF DateGE(t, rl.hourlyResetTime)
           THEN [rl EXCEPT !.hourlyCount = 0,
                           !.hourlyResetTime = AddHours(t, 1)]
           ELSE rl
      d == IF DateGE(t, h.dailyResetTime)
           THEN [h EXCEPT !.dailyCount = 0,
                          !.dailyResetTime = AddHours(t, 24)]
           ELSE h
  IN [d EXCEPT !.hourlyCount = @ + 1, !.dailyCount = @ + 1]

\* Math.max(0, n)
Max0(n) == IF n > 0 THEN n ELSE 0

\* getRemainingRequests()
getRemainingRequests(rl) ==
  [hourly |-> Max0(rl.hourly - rl.hourlyCount),
   daily  |-> Max0(rl.daily - rl.dailyCount)]

LegacyRateLimitMsg ==
  <<"API RATE LIMIT EXCEEDED! Get your FREE personal API key at https://api.nasa.gov/ (email only, instant activation, 1000 requests/hour!). Then add it to your .env file as NASA_API_KEY=your_key_here">>

LegacyNoResponse ==
  [route |-> "none", status |-> 0, data |-> NoData,
   rateLimit |-> [hourly |-> 0, daily |-> 0], error |-> Null]

\* The state after construction and PriorRequests requests: the key is set,
\* the process listens, the reset times are one hour and one day ahead.
LegacyInit ==
  /\ variant = "legacy"
  /\ ticks = 0
  /\ apodCache = <<>>
  /\ \E n \in PriorRequests :
       RATE_LIMIT =
         [hourly |-> 1000, daily |-> 1000, hourlyCount |-> n,
          dailyCount |-> n,
          hourlyResetTime |-> AddHours(LegacyClockAt(0), 1),
          dailyResetTime |-> AddHours(LegacyClockAt(0), 24)]
  /\ inflight = {}
  /\ nreq = 0
  /\ outbound = 0
  /\ res = LegacyNoResponse
  /\ aliased = NoAlias
  /\ API_KEY = <<"DEMO_KEY">>
  /\ proc = "listening"

\* The head of each of the three routes: updateRateLimit(), then axios.get
\* with the date parameter (none for GET /), which the handler awaits.
LegacyRequest(route, date) ==
  /\ nreq < MaxRequests
  /\ nreq' = nreq + 1
  /\ RATE_LIMIT' = updateRateLimit(RATE_LIMIT, LegacyNow)
  /\ inflight' = inflight \cup
        {[id |-> nreq + 1, route |-> route, date |-> date,
          dateKey |-> date]}
  /\ outbound' = outbound + 1
  /\ res' = LegacyNoResponse
  /\ UNCHANGED <<variant, ticks, apodCache, aliased, API_KEY, proc>>

\* GET /
LegacyGetRoot == LegacyRequest("GET /", Null)

\* POST /get-date-picture: req.body.date goes to the provider unchecked.
LegacyPostDatePicture(selectedDate) ==
  LegacyRequest("POST /get-date-picture", selectedDate)

\* GET /random with Math.random() = x
LegacyGetRandom(x) == LegacyRequest("GET /random", dateString(x, LegacyNow))

\* axios.get resolves: the record is rendered with getRemainingRequests().
LegacyResolve(q, r) ==
  /\ q \in inflight
  /\ inflight' = inflight \ {q}
  /\ res' = [route |-> q.route, status |-> 200, data |-> r.data,
             rateLimit |-> getRemainingRequests(RATE_LIMIT), error |-> Null]
  /\ UNCHANGED <<variant, ticks, apodCache, RATE_LIMIT, nreq, outbound,
                 aliased, API_KEY, proc>>

\* The message of a route's catch block: the fixed text for 429, otherwise
\* the route's text and error.message; POST /get-date-picture prefers the
\* msg of the error body.
LegacyErrorMessage(q, e) ==
  LET errorMessage ==
        IF e.hasResponse /\ e.status = 429 THEN LegacyRateLimitMsg
        ELSE CustomMessage(q) \o <<" ">> \o e.message
  IN IF q.route = "POST /get-date-picture" /\ e.hasResponse /\ Truthy(e.msg)
     THEN e.msg
     ELSE errorMessage

\* axios.get rejects: 500 with the message and getRemainingRequests().
LegacyReject(q, e) ==
  /\ q \in inflight
  /\ inflight' = inflight \ {q}
  /\ res' = [route |-> q.route, status |-> 500, data |-> NoData,
             rateLimit |-> getRemainingRequests(RATE_LIMIT),
             error |-> LegacyErrorMessage(q, e)]
  /\ UNCHANGED <<variant, ticks, apodCache, RATE_LIMIT, nreq, outbound,
                 aliased, API_KEY, proc>>

\* The wall clock advances to a later instant t.
LegacyTick(t) ==
  /\ t > ticks
  /\ ticks' = t
  /\ res' = LegacyNoResponse
  /\ UNCHANGED <<variant, apodCache, RATE_LIMIT, inflight, nreq, outbound,
                 aliased, API_KEY, proc>>

\* What a client of the legacy server may send as the form field date.
LegacyPostInputs == {Null, S_2000_01_01}

\* The responses of the provider the legacy runs take up: a record without
\* rate-limit headers; a 429, a 400 with a msg, a timeout.
LegacySuccesses(q) ==
  {r \in Successes(q, LegacyNow) : r.headers = NoHeaders}

LegacyFailures ==
  {HttpError(429, Absent), HttpError(400, UpstreamMsg), TimeoutError}

LegacyNext ==
  \/ LegacyGetRoot
  \/ \E d \in LegacyPostInputs : LegacyPostDatePicture(d)
  \/ \E x \in RandomDraws : LegacyGetRandom(x)
  \/ \E q \in inflight : \E r \in LegacySuccesses(q) : LegacyResolve(q, r)
  \/ \E q \in inflight : \E e \in LegacyFailures : LegacyReject(q, e)
  \/ \E t \in 1..MaxLegacyTicks : LegacyTick(t)

LegacySpec == LegacyInit /\ [][LegacyNext]_vars

\* ===================================================================
\* Vocabulary of the properties (independent of the definitions above)
\* ===================================================================
PostRoute == "POST /get-date-picture"

\* The routes that call fetchAPOD with no date.
TodayRoutes == {"GET /", "GET /api/today"}

\* The shape of a string: d for a digit, - for a hyphen, ? for anything else.
ShapeOf(s) ==
  [i \in 1..Len(s) |->
     IF s[i] \in {"0", "1", "2", "3", "4", "5", "6", "7", "8", "9"} THEN "d"
     ELSE IF s[i] = "-" THEN "-" ELSE "?"]

\* Exactly four digits, hyphen, two digits, hyphen, two digits.
PatternYMD(s) ==
  s # Null /\ ShapeOf(s) = <<"d", "d", "d", "d", "-", "d", "d", "-", "d", "d">>

\* <<year, month, day>> written in a string of that pattern.
Ymd(s) ==
  LET n(c) == CHOOSE k \in 0..9 : Digits[k + 1] = c
  IN <<1000 * n(s[1]) + 100 * n(s[2]) + 10 * n(s[3]) + n(s[4]),
       10 * n(s[6]) + n(s[7]),
       10 * n(s[9]) + n(s[10])>>

LeapYear(y) == (y % 4 = 0 /\ y % 100 # 0) \/ y % 400 = 0

DaysInMonth(y, m) ==
  IF m = 2 THEN (IF LeapYear(y) THEN 29 ELSE 28)
  ELSE IF m \in {4, 6, 9, 11} THEN 30 ELSE 31

\* A string of the pattern that denotes a day of the calendar.
RealDate(s) ==
  /\ PatternYMD(s)
  /\ Ymd(s)[2] \in 1..12
  /\ Ymd(s)[3] \in 1..DaysInMonth(Ymd(s)[1], Ymd(s)[2])

\* a <= b on <<year, month, day>>.
YmdLE(a, b) ==
  \/ a[1] < b[1]
  \/ a[1] = b[1] /\ a[2] < b[2]
  \/ a[1] = b[1] /\ a[2] = b[2] /\ a[3] <= b[3]

\* 1995-06-16 <= d <= today, today being the server's current UTC date.
InArchiveRange(s) ==
  YmdLE(<<1995, 6, 16>>, Ymd(s)) /\ YmdLE(Ymd(s), Ymd(TodayKey))

\* At every clock value of the model every value of Math.random() gives a
\* date string of the pattern, of a real calendar date, that lies between
\* 1995-06-16 and the UTC date of that clock value and passes the validator.
RandomDatesInRange ==
  \A t \in 0..MaxTicks : \A x \in MathRandom :
    LET d == dateString(x, ClockAt(t))
    IN /\ PatternYMD(d)
       /\ RealDate(d)
       /\ YmdLE(<<1995, 6, 16>>, Ymd(d))
       /\ YmdLE(Ymd(d), Ymd(ToISODate(ClockAt(t).day)))
       /\ ValidateDate(d, ClockAt(t)) = "OK"

\* This step is a call fetchAPOD(date) made by a route.
FetchCall(date) ==
  \/ date = Null /\ GetRoot
  \/ date = Null /\ GetApiToday
  \/ variant = "index" /\ ValidateDate(date, now) = "OK"
        /\ PostDatePicture(date)
  \/ date \in ApiDateParams /\ GetApiDate(date)
  \/ variant = "index"
        /\ \E x \in RandomDraws : date = dateString(x, now) /\ GetRandom(x)

\* The dates the requests of the model may pass to fetchAPOD (Null: none).
FetchDates ==
  PostInputs \cup ApiDateParams \cup {dateString(x, now) : x \in RandomDraws}

\* Date a is at or after Date b.
AtOrAfter(a, b) == a.day > b.day \/ (a.day = b.day /\ a.ms >= b.ms)

\* What a quota of 1000 leaves after count requests, never below 0.
RemainingOf(count) == IF count >= 1000 THEN 0 ELSE 1000 - count

\* The decimal number a header value of the model writes.
HeaderNumber(h) ==
  CASE h = <<"1", "0", "0", "0">> -> 1000
    [] h = <<"9", "5", "0">>      -> 950
    [] h = <<"5", "0", "0">>      -> 500
    [] h = <<"0">>                -> 0

\* ===================================================================
\* Properties
\* ===================================================================

\* C1  Cache-hit idempotence: whenever a route calls fetchAPOD with a date
\* whose effective key k is in the cache, the record stored under k is what
\* is returned and rendered, no outbound call is issued, and the cache and
\* the rate-limit snapshot are left as they were.
C1_CacheHitIdempotent ==
  [][(nreq' = nreq + 1 /\ apodCache # <<>>) => \A date \in FetchDates :
       (/\ EffectiveKey(date) \in DOMAIN apodCache
        /\ FetchCall(date))
         => /\ res'.status = 200
            /\ res'.data = apodCache[EffectiveKey(date)]
            /\ outbound' = outbound
            /\ inflight' = inflight
            /\ apodCache' = apodCache
            /\ RATE_LIMIT' = RATE_LIMIT]_vars

\* C1 witness: a request was answered from the cache, after an earlier
\* outbound call had filled it.
C1_Witness ==
  /\ res.via = "cache"
  /\ res.key \in DOMAIN apodCache
  /\ res.data = apodCache[res.key]
  /\ outbound = 1
  /\ nreq = 2

C3_AliasedRecordReturned ==
  (aliased # NoAlias /\ aliased.key = TodayKey)
    => /\ aliased.key \in DOMAIN apodCache
       /\ apodCache[aliased.key] = aliased.rec
       /\ (res.via = "cache" /\ res.key = aliased.key)
            => res.data = aliased.rec

\* C4 as stated: an outbound call carrying a user-supplied date is in flight
\* only for a date that passes the format check and the range check.
C4_ValidatedBeforeOutbound ==
  \A q \in inflight :
    Truthy(q.date) => ValidateDate(q.date, now) = "OK"

\* C5  A form field that is missing, empty or not of the pattern is answered
\* with the format message, with no record and no fetch: no invocation of
\* fetchAPOD made by the POST route carries such a value.
C5_BadFormatRejected ==
  /\ (res.route = PostRoute /\ ~PatternYMD(res.key))
       => /\ res.error = FormatErrorMsg
          /\ res.data = NoData
          /\ res.via = "none"
          /\ ~res.loading
  /\ \A q \in inflight : q.route = PostRoute => PatternYMD(q.date)

\* C5 witness: a date followed by one more character was answered with the
\* format message.
C5_Witness ==
  /\ res.route = PostRoute
  /\ res.key = S_trailing
  /\ res.error = FormatErrorMsg

\* C6 as stated: "2024-13-40" is answered with the format message and never
\* reaches fetchAPOD; "1990-01-01" is answered with the range message;
\* "2000-01-01" is accepted.
C6_ImpossibleDateRejected ==
  /\ (res.route = PostRoute /\ res.key = S_2024_13_40)
       => res.error = FormatErrorMsg
  /\ \A q \in inflight : q.route = PostRoute => q.date # S_2024_13_40
  /\ (res.route = PostRoute /\ res.key = S_1990_01_01)
       => res.error = RangeErrorMsg
  /\ (res.route = PostRoute /\ res.key = S_2000_01_01 /\ res.via # "upstream")
       => res.error = Null

\* C7  A form field that denotes a day of the calendar is answered with the
\* range message exactly when the day is before 1995-06-16 or after today,
\* and reaches fetchAPOD only when it is within these two days.
C7_RangeInclusive ==
  /\ (res.route = PostRoute /\ RealDate(res.key))
       => /\ res.error # FormatErrorMsg
          /\ (res.error = RangeErrorMsg) <=> ~InArchiveRange(res.key)
  /\ \A q \in inflight :
       (q.route = PostRoute /\ RealDate(q.date)) => InArchiveRange(q.date)

\* C7 witness: today's date was accepted and is being fetched, and
\* tomorrow's date was answered with the range message.
C7_Witness ==
  /\ \E q \in inflight : q.route = PostRoute /\ q.date = TodayKey
  /\ res.route = PostRoute
  /\ res.key = ToISODate(now.day + 1)
  /\ res.error = RangeErrorMsg

\* C8 as stated: a failed outbound call shows the rate-limit message for
\* status 429, the server-error message for a status >= 500 and the timeout
\* message for a timeout without response, whatever the error body holds.
C8_FixedMessages ==
  [][\A q \in inflight : \A e \in Failures :
       FetchReject(q, e)
         => /\ (e.hasResponse /\ e.status = 429)
                 => res'.error = RateLimitMsg
            /\ (e.hasResponse /\ e.status >= 500)
                 => res'.error = ServerErrorMsg
            /\ (~e.hasResponse /\ e.code = "ECONNABORTED")
                 => res'.error = TimeoutMsg]_vars

\* C9 as stated: a failure that is neither 429, nor >= 500, nor a timeout
\* shows the msg field of the error body when there is one, and otherwise
\* the route's default message followed by the error text, in every route.
C9_OtherMessage ==
  [][\A q \in inflight : \A e \in Failures :
       (/\ FetchReject(q, e)
        /\ ~(e.hasResponse /\ (e.status = 429 \/ e.status >= 500))
        /\ e.code # "ECONNABORTED")
         => res'.error = IF e.hasResponse /\ Truthy(e.msg)
                         THEN e.msg
                         ELSE CustomMessage(q) \o <<" ">> \o e.message]_vars

\* C10  When an outbound call succeeds, each field of the snapshot becomes
\* the number its header carries, 0 included, and keeps its value when the
\* header is absent.
C10_SnapshotFromHeaders ==
  [][(res'.via = "upstream" /\ res'.status = 200) =>
       \A q \in inflight \ inflight' : \A h \in HeaderSets :
         FetchResolve(q, [ok |-> TRUE, data |-> res'.data, headers |-> h])
           => /\ RATE_LIMIT'.limit =
                   IF h.limit = Absent THEN RATE_LIMIT.limit
                   ELSE HeaderNumber(h.limit)
              /\ RATE_LIMIT'.remaining =
                   IF h.remaining = Absent THEN RATE_LIMIT.remaining
                   ELSE HeaderNumber(h.remaining)]_vars

\* C10 witness: a response with x-ratelimit-remaining: 0 and no limit header
\* has been taken into the snapshot.
C10_Witness ==
  /\ res.via = "upstream"
  /\ res.status = 200
  /\ RATE_LIMIT = [limit |-> 1000, remaining |-> 0]

\* C11  The snapshot reflects the most recent outbound call: when a call
\* whose response carries both rate-limit headers completes, with a 2xx or
\* with an error status, and leaves no call in flight, limit and remaining
\* are the numbers of those headers.
C11_SnapshotReflectsLastCall ==
  [][/\ (res'.via = "upstream" /\ res'.status = 200 /\ inflight' = {}) =>
         \A q \in inflight \ inflight' : \A h \in HeaderSets :
           (/\ h.limit # Absent
            /\ h.remaining # Absent
            /\ FetchResolve(q, [ok |-> TRUE, data |-> res'.data,
                                headers |-> h]))
             => /\ RATE_LIMIT'.limit = HeaderNumber(h.limit)
                /\ RATE_LIMIT'.remaining = HeaderNumber(h.remaining)
     /\ (res'.status = 500 /\ inflight' = {}) =>
         \A q \in inflight \ inflight' : \A e \in Failures :
           (/\ e.hasResponse
            /\ e.headers.limit # Absent
            /\ e.headers.remaining # Absent
            /\ FetchReject(q, e))
             => /\ RATE_LIMIT'.limit = HeaderNumber(e.headers.limit)
                /\ RATE_LIMIT'.remaining = HeaderNumber(e.headers.remaining)
    ]_vars

\* C12 as stated: once a key maps to a record it maps to that record in
\* every later state (no entry is evicted or replaced by another record).
C12_CacheImmutable ==
  [][\A k \in DOMAIN apodCache :
       k \in DOMAIN apodCache' /\ apodCache'[k] = apodCache[k]]_vars

\* C13  No single-flight: a fetch whose key is not cached issues its own
\* outbound call and waits for it, also while a call for the same key is
\* already in flight.
C13_NoSingleFlight ==
  [][(nreq' = nreq + 1 /\ inflight # {}) => \A date \in FetchDates :
       (/\ EffectiveKey(date) \notin DOMAIN apodCache
        /\ \E p \in inflight : p.dateKey = EffectiveKey(date)
        /\ FetchCall(date))
         => /\ outbound' = outbound + 1
            /\ Cardinality({p \in inflight' :
                              p.dateKey = EffectiveKey(date)})
                 = 1 + Cardinality({p \in inflight :
                                      p.dateKey = EffectiveKey(date)})
            /\ apodCache' = apodCache]_vars

\* C13 witness: two calls are in flight for one key that is not cached.
C13_Witness ==
  /\ outbound = 2
  /\ \E p \in inflight : \E q \in inflight :
       /\ p # q
       /\ p.dateKey = q.dateKey
       /\ p.dateKey \notin DOMAIN apodCache

\* C14  No retry: an outbound call is issued only by the step that accepts a
\* request, once, with a new invocation awaiting it (so never more calls
\* than requests); the step that ends a call with an error removes its
\* invocation, answers 500 with the error message and issues no call.
C14_NoRetry ==
  /\ [](outbound <= nreq /\ Cardinality(inflight) <= outbound)
  /\ [][/\ outbound' \in {outbound, outbound + 1}
        /\ (outbound' = outbound + 1) =>
             /\ nreq' = nreq + 1
             /\ \E q \in inflight' \ inflight : inflight' = inflight \cup {q}
        /\ (res'.status = 500) =>
             /\ outbound' = outbound
             /\ \E q \in inflight :
                  /\ inflight' = inflight \ {q}
                  /\ res'.route = q.route
                  /\ res'.key = q.dateKey
             /\ Truthy(res'.error)]_vars

\* C14 witness: a call failed and its error was answered, with one call
\* issued for the one request.
C14_Witness ==
  /\ res.status = 500
  /\ Truthy(res.error)
  /\ nreq = 1
  /\ outbound = 1
  /\ inflight = {}

\* C15  Upstream failures are never fatal: every request waiting for its
\* outbound call is eventually answered; a request is answered at once or
\* waits, and a waiting request is answered exactly when it stops waiting;
\* when the call failed the answer has status 500 and an error message, and
\* the process keeps listening.
C15_EveryRequestAnswered ==
  /\ \A i \in 1..MaxRequests :
       (\E q \in inflight : q.id = i) ~> ~(\E q \in inflight : q.id = i)
  /\ [][(nreq' = nreq + 1) =>
          \/ inflight' = inflight /\ res' # NoResponse
          \/ /\ res' = NoResponse
             /\ \E q \in inflight' \ inflight :
                  inflight' = inflight \cup {q} /\ q.id = nreq']_vars
  /\ [][\A q \in inflight \ inflight' :
          /\ inflight' = inflight \ {q}
          /\ res'.route = q.route
          /\ res'.status \in {200, 500}
          /\ proc' = "listening"
          /\ \A e \in Failures :
               FetchReject(q, e) => res'.status = 500 /\ Truthy(res'.error)
         ]_vars

\* C15 witness: a failed call has been answered with 500 while another
\* request is still being served.
C15_Witness ==
  /\ res.status = 500
  /\ Truthy(res.error)
  /\ inflight # {}
  /\ proc = "listening"

\* C16  Only the fetch helper mutates shared state: a step that changes the
\* cache or the snapshot is the completion of an invocation's outbound call
\* with a success; in particular a request rejected by validation, GET
\* /random, GET /about and a failed call leave both as they were.
C16_OnlyFetchMutates ==
  [][/\ (apodCache' # apodCache \/ RATE_LIMIT' # RATE_LIMIT) =>
          /\ res'.via = "upstream"
          /\ res'.status = 200
          /\ nreq' = nreq
          /\ \E q \in inflight : inflight' = inflight \ {q}
     /\ (nreq' = nreq + 1) =>
          /\ apodCache' = apodCache
          /\ RATE_LIMIT' = RATE_LIMIT]_vars

\* C16 witness: a request was rejected by validation in a process whose
\* cache and snapshot had been filled by an earlier fetch.
C16_Witness ==
  /\ res.route = PostRoute
  /\ res.error = RangeErrorMsg
  /\ apodCache # <<>>
  /\ RATE_LIMIT.remaining = 950

\* C17  For every value of Math.random() and every clock value the random
\* date is a calendar date d with 1995-06-16 <= d <= today which the
\* validator accepts; so is every date GET /random has handed on.
C17_RandomDateInRange ==
  /\ RandomDatesInRange
  /\ \A q \in inflight : q.route = "GET /random" => InArchiveRange(q.date)
  /\ res.route = "GET /random" => InArchiveRange(res.key)

\* C17 witness: GET /random drew the largest fraction and is fetching the
\* picture of today.
C17_Witness ==
  \E q \in inflight : q.route = "GET /random" /\ q.date = TodayKey

\* C18  Without an API key the process never listens: it serves no request
\* and issues no outbound call.
C18_NoKeyNoService ==
  ~Truthy(API_KEY) =>
    /\ proc # "listening"
    /\ nreq = 0
    /\ outbound = 0
    /\ inflight = {}
    /\ res = NoResponse

\* C18 witness: the process has exited at startup for want of a key.
C18_Witness ==
  /\ API_KEY = Absent
  /\ proc = "exited"

\* C19  A failed outbound call changes neither the cache nor the snapshot:
\* the step that answers it leaves both as they were, so its key is cached
\* afterwards only if it was before.
C19_FailureNotCached ==
  [][(res'.status = 500) =>
       /\ apodCache' = apodCache
       /\ RATE_LIMIT' = RATE_LIMIT
       /\ \A q \in inflight \ inflight' :
            q.dateKey \in DOMAIN apodCache' <=> q.dateKey \in DOMAIN apodCache
    ]_vars

\* C19 witness: the first call failed and left the cache empty and the
\* snapshot untouched; the second request has missed and issued a fresh
\* outbound call.
C19_Witness ==
  /\ apodCache = <<>>
  /\ nreq = 2
  /\ outbound = 2
  /\ \E q \in inflight : inflight = {q} /\ q.id = 2 /\ q.date = S_2000_01_01
  /\ RATE_LIMIT = [limit |-> 1000, remaining |-> 1000]

\* C20  Cache-key consistency: an entry whose key differs from its record's
\* date sits under a local today key, and the completion of a fetch with a
\* given date writes no entry whose key differs from its record's date.
C20_KeyConsistency ==
  /\ [](\A k \in DOMAIN apodCache :
          \/ apodCache[k].date = k
          \/ k \in {ToISODate(ClockAt(t).day) : t \in 0..ticks})
  /\ [][\A q \in inflight \ inflight' :
          Truthy(q.date) =>
            \A k \in DOMAIN apodCache' :
              \/ k \in DOMAIN apodCache /\ apodCache'[k] = apodCache[k]
              \/ apodCache'[k].date = k]_vars

\* C20 witness: the cache holds an entry under a today key with a record of
\* another date, and a fetch with a given date has just stored its record.
C20_Witness ==
  /\ \E k \in DOMAIN apodCache : apodCache[k].date # k
  /\ res.route \in {PostRoute, "GET /api/date/:date"}
  /\ res.via = "upstream"
  /\ res.status = 200
  /\ res.data.date \in DOMAIN apodCache

\* C21  Legacy server: a request to one of the three routes counts once, in
\* the step that issues its single outbound call, each counter restarting
\* from 0 (so becoming 1) when the request comes at or after the counter's
\* reset time, which then moves one hour (one day) past the request; no
\* other step, the success or failure of the call included, changes a
\* counter; the remaining values a response reports are max(0, 1000 -
\* count), within 0..1000.
C21_LegacyCounters ==
  /\ [](/\ getRemainingRequests(RATE_LIMIT).hourly \in 0..1000
        /\ getRemainingRequests(RATE_LIMIT).daily \in 0..1000
        /\ res # LegacyNoResponse =>
             /\ res.rateLimit.hourly = RemainingOf(RATE_LIMIT.hourlyCount)
             /\ res.rateLimit.daily = RemainingOf(RATE_LIMIT.dailyCount))
  /\ [][(nreq' = nreq + 1) =>
          /\ outbound' = outbound + 1
          /\ \E q \in inflight' \ inflight : inflight' = inflight \cup {q}
          /\ RATE_LIMIT'.hourlyCount =
               IF AtOrAfter(LegacyNow, RATE_LIMIT.hourlyResetTime)
               THEN 1 ELSE RATE_LIMIT.hourlyCount + 1
          /\ RATE_LIMIT'.dailyCount =
               IF AtOrAfter(LegacyNow, RATE_LIMIT.dailyResetTime)
               THEN 1 ELSE RATE_LIMIT.dailyCount + 1
          /\ RATE_LIMIT'.hourlyResetTime =
               IF AtOrAfter(LegacyNow, RATE_LIMIT.hourlyResetTime)
               THEN AddHours(LegacyNow, 1) ELSE RATE_LIMIT.hourlyResetTime
          /\ RATE_LIMIT'.dailyResetTime =
               IF AtOrAfter(LegacyNow, RATE_LIMIT.dailyResetTime)
               THEN AddHours(LegacyNow, 24) ELSE RATE_LIMIT.dailyResetTime]_vars
  /\ [][(nreq' = nreq) =>
          /\ RATE_LIMIT' = RATE_LIMIT
          /\ outbound' = outbound]_vars

\* C21 witness: with 1000 requests counted, a request arriving exactly at the
\* hourly reset time restarted the hourly counter at 1 and raised the daily
\* one to 1001; its call failed and the response reports 999 and 0.
C21_Witness ==
  /\ variant = "legacy"
  /\ ticks = 2
  /\ RATE_LIMIT.hourlyCount = 1
  /\ RATE_LIMIT.dailyCount = 1001
  /\ RATE_LIMIT.hourlyResetTime = AddHours(LegacyClockAt(2), 1)
  /\ res.status = 500
  /\ res.rateLimit = [hourly |-> 999, daily |-> 0]

====
